---- MODULE Spec2Model ----
(***************************************************************************)
(* Lifecycle state machine of dm_g5k clusters (CassandraCluster,           *)
(* MongoDBCluster): bootstrap / initialize / start / stop / clean,         *)
(* clean_logs, clean_data, and the remote actions each of them issues.     *)
(*                                                                         *)
(* One cluster object is modelled.  Every public method is one action; the *)
(* methods it calls are operators over a record `s` holding the object's   *)
(* fields, the exception in flight (`raised`) and the remote actions       *)
(* issued so far by the running call (`log`).  The outcome of a remote     *)
(* action is the set of hosts on which it failed; it is an input of the    *)
(* action for the remote actions whose result the properties or the code   *)
(* look at (for the package check of bootstrap, of which the code reads    *)
(* `ok` only, it is that boolean).  The result of the remaining remote     *)
(* actions (rm, tar, mv, mkdir, chmod, ...) is never read by the code, so  *)
(* only their issuance is recorded.                                        *)
(*                                                                         *)
(* MultiCluster is modelled by a second state machine (SpecMulti) over the *)
(* list of its member clusters; the calls it makes on a member run the     *)
(* same operators as the calls on the single cluster object.               *)
(*                                                                         *)
(* SpecLong runs the single cluster over host lists longer than the seed   *)
(* list; SpecSeeds runs initialize() of a CassandraCluster over the        *)
(* contents its local cassandra.yaml can have.                             *)
(***************************************************************************)
EXTENDS Naturals, Sequences, FiniteSets

\* Largest number of hosts given to the constructor.
MaxHosts == 3

\* Identifiers of the physical Grid5000 clusters get_host_cluster can return.
G5kClusters == {"A", "B"}

Technologies == {"cassandra", "mongodb"}

\* Largest number of clusters given to MultiCluster, and largest number of
\* hosts of each of them.
MaxMembers == 2

MemberHosts == 1

\* Archives a bootstrap can be asked to install.
Archives == {"cassandra.tar.gz", "mongodb.tgz"}

VARIABLES
    tech,            \* which subclass of Cluster the object is
    hosts,           \* self.hosts (list given at construction)
    seeds,           \* self.seeds (Cassandra only; <<>> for MongoDB)
    master,          \* self.master
    host_clusters,   \* self.host_clusters: g5k cluster -> list of hosts
    initialized,     \* self.initialized
    running,         \* self.running
    running_tech,    \* self.running_cassandra / self.running_mongodb
    conf_dir,        \* self.conf_dir: local directory initialize() pushes from
    temp_conf_dir,   \* self.temp_conf_dir (Cassandra): scratch directory of _copy_base_conf
    conf_file,       \* the local file conf_dir/cassandra.yaml, as it is when it is there
    op,              \* name of the last public method called ("none" at start)
    raised,          \* exception the last call ended with ("none" if it returned)
    log,             \* remote actions issued by the last call, in order
    pre,             \* initialized/running as they were when the last call began
    start_again,     \* history: the last call and the call before it were both start()
    bootstrap_ok,    \* history: some bootstrap() returned with the archive on every host
    initialize_done, \* history: some initialize() returned without raising
    clusters,        \* MultiCluster: self.clusters, the fields of each member
    mop,             \* MultiCluster: name of the last method called
    margs,           \* MultiCluster: arguments of the last call
    mraised,         \* MultiCluster: exception the last call ended with
    calls            \* MultiCluster: calls the last call made on members, in order

multi == <<clusters, mop, margs, mraised, calls>>

vars == <<tech, hosts, seeds, master, host_clusters, initialized, running,
          running_tech, conf_dir, temp_conf_dir, conf_file, op, raised, log, pre,
          start_again, bootstrap_ok, initialize_done, multi>>

topology == <<tech, hosts, seeds, master, host_clusters>>


----------------------------------------------------------------------------
(* Helpers *)

Range(q) == {q[i] : i \in 1..Len(q)}

Min(a, b) == IF a < b THEN a ELSE b

\* A remote action whose result is not read: command, target hosts, and the
\* value of self.running when it was issued.
Cmd(s, name, targets) ==
    [cmd |-> name, targets |-> targets, run |-> s.running]

\* A remote action with its result: `failed` is the set of target hosts on
\* which it did not finish ok.
CmdR(s, name, targets, failed) ==
    [cmd |-> name, targets |-> targets, run |-> s.running, failed |-> failed]

\* A remote action of which the code reads `ok` only: whether it succeeded
\* on every target host.
CmdOk(s, name, targets, ok) ==
    [cmd |-> name, targets |-> targets, run |-> s.running, ok |-> ok]

\* action.run()
Issue(s, c) == [s EXCEPT !.log = Append(@, c)]

Raise(s, e) == [s EXCEPT !.raised = e]

\* Statement sequencing: F runs on s unless an exception is in flight.
Then(s, F(_)) == IF s.raised # "none" THEN s ELSE F(s)

\* The object as seen by a method that starts running now.
Self ==
    [initialized |-> initialized, running |-> running,
     running_tech |-> running_tech, conf_dir |-> conf_dir,
     temp_conf_dir |-> temp_conf_dir, conf_file |-> conf_file,
     raised |-> "none", log |-> <<>>]

\* Commands of a log, in order.
Cmds(l) == [i \in 1..Len(l) |-> l[i].cmd]

Issued(l, name) == \E i \in 1..Len(l) : l[i].cmd = name

----------------------------------------------------------------------------
(* CassandraCluster: start / stop / clean_logs / clean *)

cassandra_check_initialization(s) ==
    IF ~s.initialized THEN Raise(s, "ClusterNotInitializedException") ELSE s

\* A start command whose failure is raised to the caller.
cassandra_run_start_raise(s, startF) ==
    IF startF # {}
    THEN Raise(Issue(s, CmdR(s, "start_server", Range(hosts), startF)),
               "ClusterException")
    ELSE [Issue(s, CmdR(s, "start_server", Range(hosts), startF))
            EXCEPT !.running_tech = TRUE, !.running = TRUE]

\* The start command is sent to all hosts; startF is the set of hosts on
\* which it fails, finished_ok means that set is empty.
cassandra_run_start(s, startF) ==
    IF startF # {}
    THEN Issue(s, CmdR(s, "start_server", Range(hosts), startF))
    ELSE [Issue(s, CmdR(s, "start_server", Range(hosts), startF))
            EXCEPT !.running_tech = TRUE, !.running = TRUE]

\* Faulty variant: the "already started" test is missing.
cassandra_start_no_guard(s, startF) ==
    Then(cassandra_check_initialization(s),
         LAMBDA c : cassandra_run_start(c, startF))

cassandra_start(s, startF) ==
    Then(cassandra_check_initialization(s),
         LAMBDA c : IF c.running_tech THEN c
                    ELSE cassandra_run_start(c, startF))

\* stop(): no remote action is issued; the flags are cleared.
cassandra_stop(s) ==
    Then(cassandra_check_initialization(s),
         LAMBDA c : [c EXCEPT !.running_tech = FALSE, !.running = FALSE])

\* A variant that never stops the cluster.
cassandra_stop_if_running_skip(s) == s

\* "if self.running: self.stop()"
cassandra_stop_if_running(s) ==
    IF s.running THEN cassandra_stop(s) ELSE s

\* clean_logs(): `restart` is self.running as the method finds it.
cassandra_clean_logs_from(s, restart, startF) ==
    Then(Then(cassandra_stop_if_running(s),
              LAMBDA a : Issue(a, Cmd(a, "clean_rm_logs", Range(hosts)))),
         LAMBDA b : IF restart THEN cassandra_start(b, startF) ELSE b)

cassandra_clean_logs(s, startF) ==
    cassandra_clean_logs_from(s, s.running, startF)

cassandra_clean(s, startF) ==
    Then(cassandra_stop_if_running(s),
         LAMBDA a : cassandra_clean_logs(a, startF))

----------------------------------------------------------------------------
(* MongoDBCluster: start / stop / clean_logs / clean_data / clean *)

\* Faulty variant: the check never raises.
mongodb_check_initialization_never(s) == s

mongodb_check_initialization(s) ==
    IF ~s.initialized THEN Raise(s, "MongoDBNotInitializedException") ELSE s

\* Faulty variant: the cluster counts as running when some host started.
mongodb_run_start_any(s, startF) ==
    IF startF = Range(hosts)
    THEN Issue(s, CmdR(s, "start_server", Range(hosts), startF))
    ELSE [Issue(s, CmdR(s, "start_server", Range(hosts), startF))
            EXCEPT !.running_tech = TRUE, !.running = TRUE]

\* The mongod command is sent to all hosts; startF is the set of hosts on
\* which it fails, finished_ok means that set is empty.
mongodb_run_start(s, startF) ==
    IF startF # {}
    THEN Issue(s, CmdR(s, "start_server", Range(hosts), startF))
    ELSE [Issue(s, CmdR(s, "start_server", Range(hosts), startF))
            EXCEPT !.running_tech = TRUE, !.running = TRUE]

mongodb_start(s, startF) ==
    Then(mongodb_check_initialization(s),
         LAMBDA c : IF c.running_tech THEN c
                    ELSE mongodb_run_start(c, startF))

\* A stop that clears the generic flag only.
mongodb_run_stop_generic(s, stopF) ==
    [Issue(s, CmdR(s, "stop_server", Range(hosts), stopF))
        EXCEPT !.running = FALSE]

\* mongod --shutdown is sent to all hosts; stopF is the set of hosts on
\* which it fails.  The result is not read.
mongodb_run_stop(s, stopF) ==
    [Issue(s, CmdR(s, "stop_server", Range(hosts), stopF))
        EXCEPT !.running_tech = FALSE, !.running = FALSE]

\* Faulty variant: stopping a cluster that is not running is an error.
mongodb_stop_strict(s, stopF) ==
    Then(mongodb_check_initialization(s),
         LAMBDA c : IF ~c.running THEN Raise(c, "MongoDBException")
                    ELSE mongodb_run_stop(c, stopF))

mongodb_stop(s, stopF) ==
    Then(mongodb_check_initialization(s),
         LAMBDA c : mongodb_run_stop(c, stopF))

\* "if self.running: self.stop()"
mongodb_stop_if_running(s, stopF) ==
    IF s.running THEN mongodb_stop(s, stopF) ELSE s

\* clean_logs(): `restart` is self.running as the method finds it.
mongodb_clean_logs_from(s, restart, stopF, startF) ==
    Then(Then(mongodb_stop_if_running(s, stopF),
              LAMBDA a : Issue(a, Cmd(a, "clean_rm_logs", Range(hosts)))),
         LAMBDA b : IF restart THEN mongodb_start(b, startF) ELSE b)

mongodb_clean_logs(s, stopF, startF) ==
    mongodb_clean_logs_from(s, s.running, stopF, startF)

\* clean_data() after its first "if self.running: self.stop()": `restart`
\* is self.running as the second test finds it.
mongodb_clean_data_from(s, restart, stopF, startF) ==
    Then(Then(mongodb_stop_if_running(s, stopF),
              LAMBDA a : Issue(a, Cmd(a, "clean_rm_data", Range(hosts)))),
         LAMBDA b : IF restart THEN mongodb_start(b, startF) ELSE b)

\* A clean_data that restarts the cluster it found running.
mongodb_clean_data_restart(s, stopF, startF) ==
    mongodb_clean_data_from(s, s.running, stopF, startF)

mongodb_clean_data(s, stopF, startF) ==
    Then(mongodb_stop_if_running(s, stopF),
         LAMBDA a : mongodb_clean_data_from(a, a.running, stopF, startF))

mongodb_clean(s, stopF, startF) ==
    Then(Then(mongodb_stop_if_running(s, stopF),
              LAMBDA a : mongodb_clean_logs(a, stopF, startF)),
         LAMBDA b : mongodb_clean_data(b, stopF, startF))

----------------------------------------------------------------------------
(* bootstrap *)

\* The remote actions `names` run on all hosts one after the other, none
\* of their results being read (SequentialActions, or successive run()).
RunAll(s, names) ==
    [s EXCEPT !.log = @ \o [i \in 1..Len(names) |->
                               Cmd(s, names[i], Range(hosts))]]

\* dpkg -s on all hosts, then apt-get install on all hosts if the check
\* was not ok; a failed installation is only logged.  checkOk and
\* installOk are check_packages.ok and install_packages.ok.
cassandra_check_packages(s, checkOk, installOk) ==
    IF ~checkOk
    THEN Issue(Issue(s, CmdOk(s, "check_packages", Range(hosts), checkOk)),
               CmdOk(s, "install_packages", Range(hosts), installOk))
    ELSE Issue(s, CmdOk(s, "check_packages", Range(hosts), checkOk))

\* Faulty variant: a failed package installation ends the call.
cassandra_bootstrap_strict(s, checkOk, installOk, putF) ==
    IF ~checkOk /\ ~installOk
    THEN Raise(cassandra_check_packages(s, checkOk, installOk), "ClusterException")
    ELSE RunAll(
           Issue(RunAll(Issue(cassandra_check_packages(s, checkOk, installOk),
                              Cmd(s, "get_java_home", {master})),
                        <<"rm_dirs">>),
                 CmdR(s, "put_tar", Range(hosts), putF)),
           <<"tar_xf", "mv_base_dir", "mkdirs", "chmods">>)

\* CassandraCluster.bootstrap: checkOk and installOk tell whether dpkg -s
\* and apt-get install succeeded on every host, putF is the set of hosts on
\* which the transfer of the archive fails.
\* SequentialActions runs its sub-actions one after the other; no result is
\* read between them or after them.
cassandra_bootstrap(s, checkOk, installOk, putF) ==
    RunAll(
      Issue(RunAll(Issue(cassandra_check_packages(s, checkOk, installOk),
                         Cmd(s, "get_java_home", {master})),
                   <<"rm_dirs">>),
            CmdR(s, "put_tar", Range(hosts), putF)),
      <<"tar_xf", "mv_base_dir", "mkdirs", "chmods">>)

\* MongoDBCluster.bootstrap: nine remote actions run one after the other,
\* no result is read.
mongodb_bootstrap(s, putF) ==
    RunAll(
      Issue(RunAll(s, <<"rm_base_dir", "rm_data_dir", "rm_conf_dir",
                        "rm_logs_file">>),
            CmdR(s, "put_tar", Range(hosts), putF)),
      <<"tar_xf", "mv_base_dir", "mkdir_data", "mkdir_conf">>)

----------------------------------------------------------------------------
(* initialize *)

\* Names of the local directories the model tells apart.
InstallConfDir == "cassandra_conf_dir"   \* the configured path, read locally
Scratch        == "scratch"              \* the directory made by mkdtemp
Unset          == "unset"                \* attribute not assigned yet

cassandra_force_clean(s) == s

\* Faulty variant: the previous configuration is dropped without stopping
\* or cleaning the cluster first.
cassandra_pre_initialize_no_stop(s, startF) ==
    [s EXCEPT !.initialized = FALSE]

cassandra_pre_initialize(s, startF) ==
    Then(IF s.initialized
         THEN Then(cassandra_stop_if_running(s),
                   LAMBDA st : cassandra_clean(st, startF))
         ELSE cassandra_force_clean(s),
         LAMBDA a : [a EXCEPT !.initialized = FALSE])

\* mkdtemp, copy of the local overrides, Get of the missing files from
\* hosts[0] into the scratch directory.
cassandra_copy_base_conf(s) ==
    [s EXCEPT !.temp_conf_dir = Scratch,
              !.log = Append(@, [cmd |-> "get_conf", targets |-> {hosts[1]},
                                 run |-> s.running, init |-> s.initialized, dst |-> Scratch])]

\* A string is the sequence of its characters.
Quote == "\""

Digits == <<"1", "2", "3", "4", "5", "6", "7", "8", "9">>

\* Host.address of host h.
address(h) == <<"h", Digits[h]>>

\* sep.join(parts)
join(sep, parts) ==
    LET upto[i \in 0..Len(parts)] ==
            IF i = 0 THEN <<>>
            ELSE IF i = 1 THEN parts[1]
            ELSE upto[i - 1] \o sep \o parts[i]
    IN  upto[Len(parts)]

\* '"' + ",".join(s.address for s in self.seeds) + '"'
seeds_value(sd) ==
    <<Quote>> \o join(<<",">>, [i \in 1..Len(sd) |-> address(sd[i])])
              \o <<Quote>>

\* A cassandra.yaml: the mapping it holds and the way it is laid out
\* (comments and key order of a hand-written file, or the output of
\* yaml.dump).
SeedProvider(v) ==
    <<[class_name |-> "org.apache.cassandra.locator.SimpleSeedProvider",
       parameters |-> <<[seeds |-> v]>>]>>

DefaultSeeds == <<"1", "2", "7", ".", "0", ".", "0", ".", "1">>

DefaultConfFile ==
    [layout |-> "hand-written",
     doc |-> [cluster_name |-> "Test Cluster", num_tokens |-> 256,
              seed_provider |-> SeedProvider(DefaultSeeds)]]

\* yaml.load(stream): the mapping; comments and key order are not kept.
yaml_load(file) == file.doc

\* yaml.dump(config, stream): the mapping, written without comments and
\* with sorted keys.
yaml_dump(config) == [layout |-> "dumped", doc |-> config]

\* config["seed_provider"][0]["parameters"][0]["seeds"] = value
set_seeds(config, value) ==
    [config EXCEPT !.seed_provider[1].parameters[1].seeds = value]

\* A variant that marks the cluster initialized again before it raises.
cassandra_create_nodes_and_seeds_conf_rollback(s, exists) ==
    IF ~exists THEN Raise([s EXCEPT !.initialized = TRUE], "IOError")
    ELSE [s EXCEPT !.conf_file =
              yaml_dump(set_seeds(yaml_load(@), seeds_value(seeds)))]

\* Opens conf_dir/cassandra.yaml on the local machine: `exists` tells
\* whether that file is there.  The mapping is loaded, the seed list is
\* set in it, and it is written back to the same file.
cassandra_create_nodes_and_seeds_conf(s, exists) ==
    IF ~exists THEN Raise(s, "IOError")
    ELSE [s EXCEPT !.conf_file =
              yaml_dump(set_seeds(yaml_load(@), seeds_value(seeds)))]

cassandra_configure_servers(s, group) == s

\* TaktukPut of the files of `dir`; a failure is only logged.
cassandra_copy_conf(s, dir, group, failed) ==
    Issue(s, [cmd |-> "put_conf", targets |-> Range(group), run |-> s.running, init |-> s.initialized,
              failed |-> failed, src |-> dir])

\* The loop over self.host_clusters: after[i] is the object once the
\* first i groups of `order` have been configured.
cassandra_configure_groups(s, order, pushF) ==
    LET after[i \in 0..Len(order)] ==
            IF i = 0 THEN s
            ELSE cassandra_copy_conf(
                     cassandra_configure_servers(after[i - 1],
                                                 host_clusters[order[i]]),
                     s.conf_dir,
                     host_clusters[order[i]],
                     pushF[order[i]])
    IN  after[Len(order)]

\* initialize() after _pre_initialize.
cassandra_configure(s, exists, order, pushF) ==
    Then(Then(Then(cassandra_copy_base_conf(s),
                   LAMBDA b : cassandra_create_nodes_and_seeds_conf(b, exists)),
              LAMBDA c : cassandra_configure_groups(c, order, pushF)),
         LAMBDA d : [d EXCEPT !.initialized = TRUE])

\* Faulty variant: initialized is set before the configuration is made.
cassandra_initialize_early(s, startF, exists, order, pushF) ==
    Then(cassandra_pre_initialize(s, startF),
         LAMBDA a : cassandra_configure([a EXCEPT !.initialized = TRUE],
                                        exists, order, pushF))

cassandra_initialize(s, startF, exists, order, pushF) ==
    Then(cassandra_pre_initialize(s, startF),
         LAMBDA a : cassandra_configure(a, exists, order, pushF))

mongodb_force_clean(s) == s

\* A pre-initialize that stops the cluster but does not clean it.
mongodb_pre_initialize_no_clean(s, stopF, startF) ==
    Then(IF s.initialized
         THEN mongodb_stop_if_running(s, stopF)
         ELSE mongodb_force_clean(s),
         LAMBDA a : [a EXCEPT !.initialized = FALSE])

mongodb_pre_initialize(s, stopF, startF) ==
    Then(IF s.initialized
         THEN Then(mongodb_stop_if_running(s, stopF),
                   LAMBDA st : mongodb_clean(st, stopF, startF))
         ELSE mongodb_force_clean(s),
         LAMBDA a : [a EXCEPT !.initialized = FALSE])

\* mkdtemp into self.conf_dir, copy of the local overrides, Get of the
\* missing files from the master into that directory.
mongodb_copy_base_conf(s) ==
    [s EXCEPT !.conf_dir = Scratch,
              !.log = Append(@, [cmd |-> "get_conf", targets |-> {master},
                                 run |-> s.running, init |-> s.initialized, dst |-> Scratch])]

mongodb_create_master_and_slave_conf(s) == s

mongodb_configure_servers(s, group) == s

\* A push that gives up at the first failed transfer.
mongodb_copy_conf_abort(s, dir, group, failed) ==
    IF failed = {}
    THEN Issue(s, [cmd |-> "put_conf", targets |-> Range(group),
                   run |-> s.running, init |-> s.initialized, failed |-> failed, src |-> dir])
    ELSE Raise(Issue(s, [cmd |-> "put_conf", targets |-> Range(group),
                         run |-> s.running, init |-> s.initialized, failed |-> failed, src |-> dir]),
               "ClusterException")

\* TaktukPut of the files of `dir`; a failure is only logged.
mongodb_copy_conf(s, dir, group, failed) ==
    Issue(s, [cmd |-> "put_conf", targets |-> Range(group), run |-> s.running, init |-> s.initialized,
              failed |-> failed, src |-> dir])

\* The loop over self.host_clusters: after[i] is the object once the
\* first i groups of `order` have been configured.
mongodb_configure_groups(s, order, pushF) ==
    LET after[i \in 0..Len(order)] ==
            IF i = 0 THEN s
            ELSE mongodb_copy_conf(
                     mongodb_configure_servers(after[i - 1],
                                               host_clusters[order[i]]),
                     s.conf_dir,
                     host_clusters[order[i]],
                     pushF[order[i]])
    IN  after[Len(order)]

\* initialize() after _pre_initialize.
mongodb_configure(s, order, pushF) ==
    Then(Then(Then(mongodb_copy_base_conf(s),
                   LAMBDA b : mongodb_create_master_and_slave_conf(b)),
              LAMBDA c : mongodb_configure_groups(c, order, pushF)),
         LAMBDA d : [d EXCEPT !.initialized = TRUE])

\* A variant that sets initialized before the configuration is pushed.
mongodb_initialize_early(s, stopF, startF, order, pushF) ==
    Then(mongodb_pre_initialize(s, stopF, startF),
         LAMBDA a : mongodb_configure([a EXCEPT !.initialized = TRUE],
                                      order, pushF))

mongodb_initialize(s, stopF, startF, order, pushF) ==
    Then(mongodb_pre_initialize(s, stopF, startF),
         LAMBDA a : mongodb_configure(a, order, pushF))

----------------------------------------------------------------------------
(* Construction *)

\* Every host of the list taken as a seed.
cassandra_seeds_all(h) == h

\* self.seeds = self.hosts[0:3]
cassandra_seeds(h) == SubSeq(h, 1, Min(Len(h), 3))

\* A map in which the first host is put in every group.
HostClustersShared(h, gc) ==
    [g \in {gc[x] : x \in Range(h)} |->
        SelectSeq(h, LAMBDA x : gc[x] = g \/ x = h[1])]

\* self.host_clusters: the hosts of each g5k cluster, in host-list order;
\* gc is the answer of get_host_cluster for every host.
HostClusters(h, gc) ==
    [g \in {gc[x] : x \in Range(h)} |->
        SelectSeq(h, LAMBDA x : gc[x] = g)]

\* Orders in which the loop of initialize() can visit the keys of the dict.
Orders(S) == {q \in [1..Cardinality(S) -> S] : Range(q) = S}

\* Results of the configuration push: for each group the hosts on which
\* the transfer failed.
PushResults ==
    {f \in [DOMAIN host_clusters -> SUBSET Range(hosts)] :
        \A g \in DOMAIN host_clusters : f[g] \subseteq Range(host_clusters[g])}

\* Outcomes of a remote action sent to all hosts: the hosts where it fails.
Results == SUBSET Range(hosts)

\* Outcomes of the remote stop command; CassandraCluster.stop sends none.
StopResults == IF tech = "mongodb" THEN Results ELSE {{}}

\* Outcomes of the stop() that a clean or an initialize makes first: it is
\* called only when self.running holds.
AutoStopResults == IF running THEN StopResults ELSE {{}}

\* Outcomes of the start() that ends clean_logs: it is called only when the
\* cluster was running.
RestartResults == IF running THEN Results ELSE {{}}

\* Values of check_packages.ok; only CassandraCluster checks packages.
PackageCheckResults == IF tech = "cassandra" THEN BOOLEAN ELSE {TRUE}

\* Whether conf_dir/cassandra.yaml exists on the local machine; only
\* CassandraCluster opens it.
LocalFileStates == IF tech = "cassandra" THEN BOOLEAN ELSE {TRUE}

Init ==
    /\ tech \in Technologies
    /\ \E n \in 1..MaxHosts :
         /\ hosts = [i \in 1..n |-> i]
         /\ \E gc \in [1..n -> G5kClusters] :
              host_clusters = HostClusters(hosts, gc)
    /\ seeds = IF tech = "cassandra" THEN cassandra_seeds(hosts) ELSE <<>>
    /\ master = hosts[1]
    /\ initialized = FALSE
    /\ running = FALSE
    /\ running_tech = FALSE
    /\ conf_dir = IF tech = "cassandra" THEN InstallConfDir ELSE Unset
    /\ temp_conf_dir = Unset
    /\ conf_file = DefaultConfFile
    /\ op = "none"
    /\ raised = "none"
    /\ log = <<>>
    /\ pre = [initialized |-> FALSE, running |-> FALSE]
    /\ start_again = FALSE
    /\ bootstrap_ok = FALSE
    /\ initialize_done = FALSE
    /\ clusters = <<>>
    /\ mop = "none"
    /\ margs = <<>>
    /\ mraised = "none"
    /\ calls = <<>>

----------------------------------------------------------------------------
(* Public methods: one action per call *)

\* The call `name` ended in r: the object's fields and the record of the call.
Done(name, r) ==
    /\ initialized' = r.initialized
    /\ running' = r.running
    /\ running_tech' = r.running_tech
    /\ conf_dir' = r.conf_dir
    /\ temp_conf_dir' = r.temp_conf_dir
    /\ conf_file' = r.conf_file
    /\ op' = name
    /\ raised' = r.raised
    /\ log' = r.log
    /\ pre' = [initialized |-> initialized, running |-> running]
    /\ start_again' = (name = "start" /\ op = "start")
    /\ UNCHANGED <<topology, multi>>

Bootstrap ==
    \E checkOk \in PackageCheckResults, putF \in Results :
    \E installOk \in (IF checkOk THEN {TRUE} ELSE BOOLEAN) :
        LET r == IF tech = "cassandra"
                 THEN cassandra_bootstrap(Self, checkOk, installOk, putF)
                 ELSE mongodb_bootstrap(Self, putF)
        IN  /\ Done("bootstrap", r)
            /\ bootstrap_ok' = (bootstrap_ok \/ (r.raised = "none" /\ putF = {}))
            /\ UNCHANGED initialize_done

Initialize ==
    \E stopF \in AutoStopResults, exists \in LocalFileStates,
       order \in Orders(DOMAIN host_clusters), pushF \in PushResults :
        LET r == IF tech = "cassandra"
                 THEN cassandra_initialize(Self, {}, exists, order, pushF)
                 ELSE mongodb_initialize(Self, stopF, {}, order, pushF)
        IN  /\ Done("initialize", r)
            /\ initialize_done' = (initialize_done \/ r.raised = "none")
            /\ UNCHANGED bootstrap_ok

Start ==
    \E startF \in Results :
        LET r == IF tech = "cassandra"
                 THEN cassandra_start(Self, startF)
                 ELSE mongodb_start(Self, startF)
        IN  /\ Done("start", r)
            /\ UNCHANGED <<bootstrap_ok, initialize_done>>

Stop ==
    \E stopF \in StopResults :
        LET r == IF tech = "cassandra"
                 THEN cassandra_stop(Self)
                 ELSE mongodb_stop(Self, stopF)
        IN  /\ Done("stop", r)
            /\ UNCHANGED <<bootstrap_ok, initialize_done>>

CleanLogs ==
    \E stopF \in AutoStopResults, startF \in RestartResults :
        LET r == IF tech = "cassandra"
                 THEN cassandra_clean_logs(Self, startF)
                 ELSE mongodb_clean_logs(Self, stopF, startF)
        IN  /\ Done("clean_logs", r)
            /\ UNCHANGED <<bootstrap_ok, initialize_done>>

\* Only MongoDBCluster has clean_data.
CleanData ==
    /\ tech = "mongodb"
    /\ \E stopF \in AutoStopResults :
        LET r == mongodb_clean_data(Self, stopF, {})
        IN  /\ Done("clean_data", r)
            /\ UNCHANGED <<bootstrap_ok, initialize_done>>

Clean ==
    \E stopF \in AutoStopResults :
        LET r == IF tech = "cassandra"
                 THEN cassandra_clean(Self, {})
                 ELSE mongodb_clean(Self, stopF, {})
        IN  /\ Done("clean", r)
            /\ UNCHANGED <<bootstrap_ok, initialize_done>>

Next ==
    \/ Bootstrap
    \/ Initialize
    \/ Start
    \/ Stop
    \/ CleanLogs
    \/ CleanData
    \/ Clean

Spec == Init /\ [][Next]_vars

\* Host lists longer than the seed list, all hosts in one g5k cluster.
MaxSeedHosts == 4

InitLong ==
    /\ tech \in Technologies
    /\ \E n \in 1..MaxSeedHosts :
         /\ hosts = [i \in 1..n |-> i]
         /\ host_clusters = HostClusters(hosts, [i \in 1..n |-> "A"])
    /\ seeds = IF tech = "cassandra" THEN cassandra_seeds(hosts) ELSE <<>>
    /\ master = hosts[1]
    /\ initialized = FALSE
    /\ running = FALSE
    /\ running_tech = FALSE
    /\ conf_dir = IF tech = "cassandra" THEN InstallConfDir ELSE Unset
    /\ temp_conf_dir = Unset
    /\ conf_file = DefaultConfFile
    /\ op = "none"
    /\ raised = "none"
    /\ log = <<>>
    /\ pre = [initialized |-> FALSE, running |-> FALSE]
    /\ start_again = FALSE
    /\ bootstrap_ok = FALSE
    /\ initialize_done = FALSE
    /\ clusters = <<>>
    /\ mop = "none"
    /\ margs = <<>>
    /\ mraised = "none"
    /\ calls = <<>>

SpecLong == InitLong /\ [][Next]_vars

\* Contents cassandra.yaml can have before initialize() edits it.
ConfFiles ==
    [layout : {"hand-written", "dumped"},
     doc : [cluster_name : {"Test Cluster", "g5k"},
            num_tokens : {1, 256},
            seed_provider : {SeedProvider(v) :
                v \in {DefaultSeeds, address(1), seeds_value(<<2, 1>>)}}]]

\* A CassandraCluster over any host list and any cassandra.yaml.
InitSeeds ==
    /\ tech = "cassandra"
    /\ \E n \in 1..MaxSeedHosts :
         /\ hosts = [i \in 1..n |-> i]
         /\ host_clusters = HostClusters(hosts, [i \in 1..n |-> "A"])
    /\ seeds = cassandra_seeds(hosts)
    /\ master = hosts[1]
    /\ initialized = FALSE
    /\ running = FALSE
    /\ running_tech = FALSE
    /\ conf_dir = InstallConfDir
    /\ temp_conf_dir = Unset
    /\ conf_file \in ConfFiles
    /\ op = "none"
    /\ raised = "none"
    /\ log = <<>>
    /\ pre = [initialized |-> FALSE, running |-> FALSE]
    /\ start_again = FALSE
    /\ bootstrap_ok = FALSE
    /\ initialize_done = FALSE
    /\ clusters = <<>>
    /\ mop = "none"
    /\ margs = <<>>
    /\ mraised = "none"
    /\ calls = <<>>

\* initialize() is the only method that touches cassandra.yaml.
NextSeeds == Initialize

SpecSeeds == InitSeeds /\ [][NextSeeds]_vars


----------------------------------------------------------------------------
(* MultiCluster *)

\* A member cluster as seen by a method that starts running on it.
MemberSelf(m) ==
    [initialized |-> m.initialized, running |-> m.running,
     running_tech |-> m.running_tech, conf_dir |-> m.conf_dir,
     temp_conf_dir |-> m.temp_conf_dir, conf_file |-> m.conf_file,
     raised |-> "none", log |-> <<>>]

\* The member once the call that ended in r is over.
MemberAfter(m, r) ==
    [tech |-> m.tech, initialized |-> r.initialized, running |-> r.running,
     running_tech |-> r.running_tech, conf_dir |-> r.conf_dir,
     temp_conf_dir |-> r.temp_conf_dir, conf_file |-> r.conf_file]

\* A cluster object right after its construction.
NewMember(t) ==
    [tech |-> t, initialized |-> FALSE, running |-> FALSE,
     running_tech |-> FALSE,
     conf_dir |-> IF t = "cassandra" THEN InstallConfDir ELSE Unset,
     temp_conf_dir |-> Unset, conf_file |-> DefaultConfFile]

\* What the environment answers to one call on a member: `ok` is the
\* package check and the presence of the local cassandra.yaml, `f` the
\* hosts on which the remote actions whose result is read fail, `order`
\* the order in which the member visits its groups.
MemberInputs ==
    [ok : BOOLEAN, f : Results, order : Orders(DOMAIN host_clusters)]

\* c.<name>(*args) on member m.  bootstrap(self, tar_file) takes exactly one
\* argument and the other methods none: a call with another number of
\* arguments raises TypeError before the method runs.
member_call(m, name, args, in) ==
    IF Len(args) # (IF name = "bootstrap" THEN 1 ELSE 0)
    THEN Raise(MemberSelf(m), "TypeError")
    ELSE IF m.tech = "cassandra"
    THEN CASE name = "bootstrap" ->
                  cassandra_bootstrap(MemberSelf(m), in.ok, in.ok, in.f)
           [] name = "initialize" ->
                  cassandra_initialize(MemberSelf(m), {}, in.ok, in.order,
                      [g \in DOMAIN host_clusters |->
                          in.f \cap Range(host_clusters[g])])
           [] name = "start" -> cassandra_start(MemberSelf(m), in.f)
           [] name = "stop" -> cassandra_stop(MemberSelf(m))
           [] name = "clean" -> cassandra_clean(MemberSelf(m), {})
    ELSE CASE name = "bootstrap" -> mongodb_bootstrap(MemberSelf(m), in.f)
           [] name = "initialize" ->
                  mongodb_initialize(MemberSelf(m), in.f, {}, in.order,
                      [g \in DOMAIN host_clusters |->
                          in.f \cap Range(host_clusters[g])])
           [] name = "start" -> mongodb_start(MemberSelf(m), in.f)
           [] name = "stop" -> mongodb_stop(MemberSelf(m), in.f)
           [] name = "clean" -> mongodb_clean(MemberSelf(m), in.f, {})

\* One iteration of `for c in self.clusters: c.<name>(*args)`: the call on
\* member i, skipped when an earlier call raised.
multicluster_step(a, i, name, args, in) ==
    IF a.raised # "none" THEN a
    ELSE [clusters |-> [a.clusters EXCEPT ![i] =
                           MemberAfter(@, member_call(@, name, args, in))],
          calls |-> Append(a.calls,
                       [member |-> i, op |-> name, args |-> args,
                        raised |-> member_call(a.clusters[i], name, args,
                                               in).raised]),
          raised |-> member_call(a.clusters[i], name, args, in).raised]

\* for c in self.clusters: c.<name>(*args); ins[i] is what the environment
\* answers to the call on member i.
multicluster_each(name, args, ins) ==
    LET after[i \in 0..Len(clusters)] ==
            IF i = 0
            THEN [clusters |-> clusters, calls |-> <<>>, raised |-> "none"]
            ELSE multicluster_step(after[i - 1], i, name, args, ins[i])
    IN  after[Len(clusters)]

multicluster_initialize(ins) == multicluster_each("initialize", <<>>, ins)

\* c.bootstrap() is called without dist_file.
multicluster_bootstrap(dist_file, ins) ==
    multicluster_each("bootstrap", <<>>, ins)

multicluster_start(ins) == multicluster_each("start", <<>>, ins)

multicluster_stop(ins) == multicluster_each("stop", <<>>, ins)

multicluster_clean(ins) == multicluster_each("clean", <<>>, ins)

\* MultiCluster(clusters): member clusters of any technology, each freshly
\* constructed over hosts of the same layout.
InitMulti ==
    /\ tech = "multi"
    /\ \E n \in 1..MemberHosts :
         /\ hosts = [i \in 1..n |-> i]
         /\ \E gc \in [1..n -> G5kClusters] :
              host_clusters = HostClusters(hosts, gc)
    /\ seeds = cassandra_seeds(hosts)
    /\ master = hosts[1]
    /\ initialized = FALSE
    /\ running = FALSE
    /\ running_tech = FALSE
    /\ conf_dir = Unset
    /\ temp_conf_dir = Unset
    /\ conf_file = DefaultConfFile
    /\ op = "none"
    /\ raised = "none"
    /\ log = <<>>
    /\ pre = [initialized |-> FALSE, running |-> FALSE]
    /\ start_again = FALSE
    /\ bootstrap_ok = FALSE
    /\ initialize_done = FALSE
    /\ \E k \in 0..MaxMembers :
         \E ts \in [1..k -> Technologies] :
             clusters = [i \in 1..k |-> NewMember(ts[i])]
    /\ mop = "none"
    /\ margs = <<>>
    /\ mraised = "none"
    /\ calls = <<>>

\* The call `name(*args)` on the MultiCluster ended in r.
MultiDone(name, args, r) ==
    /\ clusters' = r.clusters
    /\ mop' = name
    /\ margs' = args
    /\ mraised' = r.raised
    /\ calls' = r.calls
    /\ UNCHANGED <<topology, initialized, running, running_tech, conf_dir,
                   temp_conf_dir, conf_file, op, raised, log, pre, start_again,
                   bootstrap_ok, initialize_done>>

MultiBootstrap ==
    \E dist_file \in Archives,
       ins \in [1..Len(clusters) -> MemberInputs] :
        MultiDone("bootstrap", <<dist_file>>,
                  multicluster_bootstrap(dist_file, ins))

MultiInitialize ==
    \E ins \in [1..Len(clusters) -> MemberInputs] :
        MultiDone("initialize", <<>>, multicluster_initialize(ins))

MultiStart ==
    \E ins \in [1..Len(clusters) -> MemberInputs] :
        MultiDone("start", <<>>, multicluster_start(ins))

MultiStop ==
    \E ins \in [1..Len(clusters) -> MemberInputs] :
        MultiDone("stop", <<>>, multicluster_stop(ins))

MultiClean ==
    \E ins \in [1..Len(clusters) -> MemberInputs] :
        MultiDone("clean", <<>>, multicluster_clean(ins))

NextMulti ==
    \/ MultiBootstrap
    \/ MultiInitialize
    \/ MultiStart
    \/ MultiStop
    \/ MultiClean

SpecMulti == InitMulti /\ [][NextMulti]_vars


----------------------------------------------------------------------------
(* Properties *)

NotInitializedErrors ==
    {"ClusterNotInitializedException", "MongoDBNotInitializedException"}

\* The last call left initialized and running as it found them.
FlagsUnchanged == initialized = pre.initialized /\ running = pre.running

\* C1: after every operation of any sequence of lifecycle calls, whatever
\* the outcome of each remote command, running = true implies
\* initialized = true.
C1_RunningImpliesInitialized == running => initialized

\* A running cluster, reached through the stop / restart of clean_logs.
C1_Witness ==
    op = "clean_logs" /\ pre.running /\ running /\ initialized

\* C2 as stated: initialized = true implies that a bootstrap() call
\* completed successfully before.
C2_InitializedImpliesBootstrapped == initialized => bootstrap_ok

\* C2 as amended: initialized = true implies that an initialize() call
\* returned without raising before; bootstrap is not required.
C2_InitializedImpliesInitializeReturned == initialized => initialize_done

\* An initialize() that set initialized on a cluster never bootstrapped.
C2_Witness ==
    op = "initialize" /\ raised = "none" /\ initialized /\ ~bootstrap_ok

\* C3 as stated: clean() always returns with running = false and
\* initialized = false.
C3_CleanResetsFlags ==
    (op = "clean" /\ raised = "none") => (~running /\ ~initialized)

\* C4 as stated: on a cluster with initialized = false each of start(),
\* stop() and clean() raises the not-initialized error, issues no remote
\* command and leaves initialized and running unchanged.
C4_AllThreeRaise ==
    (op \in {"start", "stop", "clean"} /\ ~pre.initialized) =>
        (raised \in NotInitializedErrors /\ log = <<>> /\ FlagsUnchanged)

\* C4 as amended: on a cluster with initialized = false, start() and stop()
\* raise the not-initialized error, issue no remote command and leave the
\* flags unchanged; clean() does not raise, issues its removal commands to
\* all hosts and leaves the flags unchanged.
C4_StartStopRaiseCleanRuns ==
    /\ (op \in {"start", "stop"} /\ ~pre.initialized) =>
          (raised \in NotInitializedErrors /\ log = <<>> /\ FlagsUnchanged)
    /\ (op = "clean" /\ ~pre.initialized) =>
          /\ raised = "none"
          /\ Cmds(log) = IF tech = "cassandra"
                         THEN <<"clean_rm_logs">>
                         ELSE <<"clean_rm_logs", "clean_rm_data">>
          /\ \A i \in 1..Len(log) : log[i].targets = Range(hosts)
          /\ FlagsUnchanged

\* A stop() that raised on a cluster never initialized.
C4_Witness ==
    op = "stop" /\ ~pre.initialized /\ raised \in NotInitializedErrors


\* C5 as stated: the second of two start() calls in a row on an initialized
\* cluster leaves initialized and running as the first left them and does
\* not issue the remote start command, whatever the first call's outcome.
C5_SecondStartIsNoOp ==
    (start_again /\ pre.initialized) =>
        (raised = "none" /\ FlagsUnchanged /\ ~Issued(log, "start_server"))

\* C5 as amended: when the first start() left running = true, the second
\* start() leaves initialized and running unchanged and does not issue the
\* remote start command; when the first left running = false (its remote
\* command failed on some host), the second issues the command again.
C5_SecondStartAfterSuccessIsNoOp ==
    /\ (start_again /\ pre.initialized /\ pre.running) =>
          (raised = "none" /\ FlagsUnchanged /\ log = <<>>)
    /\ (start_again /\ pre.initialized /\ ~pre.running) =>
          (raised = "none" /\ Cmds(log) = <<"start_server">>)

\* A second start() in a row on a running cluster.
C5_Witness ==
    start_again /\ pre.initialized /\ pre.running /\ running /\ log = <<>>

\* C6 as stated: stop() on an initialized cluster that is not running does
\* not raise, leaves initialized and running unchanged and issues no remote
\* stop command.
C6_StopWhenStoppedIssuesNothing ==
    (op = "stop" /\ pre.initialized /\ ~pre.running) =>
        (raised = "none" /\ FlagsUnchanged /\ ~Issued(log, "stop_server"))

\* C6 as amended: stop() on an initialized cluster that is not running does
\* not raise and leaves initialized and running unchanged; a MongoDBCluster
\* still issues the remote stop command to all hosts, a CassandraCluster
\* issues none.
C6_StopWhenStoppedKeepsFlags ==
    (op = "stop" /\ pre.initialized /\ ~pre.running) =>
        /\ raised = "none"
        /\ FlagsUnchanged
        /\ Cmds(log) = IF tech = "mongodb" THEN <<"stop_server">> ELSE <<>>
        /\ \A i \in 1..Len(log) : log[i].targets = Range(hosts)

\* A stop() on an initialized MongoDB cluster that was not running.
C6_Witness ==
    /\ op = "stop" /\ pre.initialized /\ ~pre.running
    /\ tech = "mongodb" /\ raised = "none"

\* C7: start() on an initialized cluster that is not running issues the
\* start command to all hosts; afterwards running = true exactly when the
\* command succeeded on every host, and initialized is unchanged.
C7_StartRunsIffAllHostsOk ==
    (op = "start" /\ pre.initialized /\ ~pre.running) =>
        /\ raised = "none"
        /\ Cmds(log) = <<"start_server">>
        /\ log[1].targets = Range(hosts)
        /\ running <=> (log[1].failed = {})
        /\ initialized = pre.initialized

\* A start() that failed on one host and succeeded on another.
C7_Witness ==
    /\ op = "start" /\ pre.initialized /\ ~pre.running
    /\ Len(log) = 1
    /\ log[1].failed # {} /\ log[1].failed # Range(hosts)
    /\ ~running

\* C8 as stated: stop() on an initialized cluster issues the server-stop
\* command to the hosts and then sets running = false whatever the result;
\* initialized is unchanged.
C8_StopIssuesCommand ==
    (op = "stop" /\ pre.initialized) =>
        /\ raised = "none"
        /\ Cmds(log) = <<"stop_server">>
        /\ log[1].targets = Range(hosts)
        /\ ~running
        /\ initialized = pre.initialized

\* Steps of bootstrap() that follow the transfer of the archive.
AfterTransfer ==
    IF tech = "cassandra"
    THEN <<"tar_xf", "mv_base_dir", "mkdirs", "chmods">>
    ELSE <<"tar_xf", "mv_base_dir", "mkdir_data", "mkdir_conf">>

\* The last call transferred the archive and the transfer failed somewhere.
TransferFailed ==
    \E i \in 1..Len(log) : log[i].cmd = "put_tar" /\ log[i].failed # {}

\* C9: when the transfer of the archive fails on any host,
\* bootstrap() raises and issues none of the later steps.
C9_FailedTransferAborts ==
    (op = "bootstrap" /\ TransferFailed) =>
        /\ raised # "none"
        /\ \A i \in 1..Len(log) : log[i].cmd \notin Range(AfterTransfer)

\* The dependency check and the package installation both failed somewhere.
DependencyFailed ==
    /\ \E i \in 1..Len(log) : log[i].cmd = "check_packages" /\ ~log[i].ok
    /\ \E i \in 1..Len(log) : log[i].cmd = "install_packages" /\ ~log[i].ok

\* C10: a failure of the dependency check and of the package installation
\* does not abort bootstrap(): the removal of the prior directories, the
\* transfer, the unpack, the relocation and the directory creation are
\* still issued to all hosts, in that order, and bootstrap() does not raise.
C10_DependencyFailureIsSoft ==
    (op = "bootstrap" /\ DependencyFailed) =>
        /\ raised = "none"
        /\ Len(log) = 9
        /\ SubSeq(Cmds(log), 1, 3) =
              <<"check_packages", "install_packages", "get_java_home">>
        /\ SubSeq(Cmds(log), 4, 9) =
              <<"rm_dirs", "put_tar", "tar_xf", "mv_base_dir", "mkdirs", "chmods">>
        /\ \A j \in 4..9 : log[j].targets = Range(hosts)

\* A bootstrap() in which the check and the installation failed while the
\* transfer succeeded everywhere.
C10_Witness ==
    /\ op = "bootstrap" /\ DependencyFailed
    /\ \E i \in 1..Len(log) : log[i].cmd = "put_tar" /\ log[i].failed = {}

\* Positions of the configuration pushes of the last call.
Pushes == {i \in 1..Len(log) : log[i].cmd = "put_conf"}

\* Host h received the files of a configuration push of the last call;
\* otherwise what it held before the call is still there.
Received(h) == \E i \in Pushes : h \in log[i].targets \ log[i].failed

\* C11 as stated: when the push to one group succeeds and the push to
\* another group fails, initialize() ends with initialized = true, the hosts
\* of the first group hold the new configuration and the hosts of the
\* second group keep their prior configuration, in either processing order.
C11_FailedGroupKeepsPriorConf ==
    op = "initialize" =>
        \A i, j \in Pushes :
            (log[i].failed = {} /\ log[j].failed # {}) =>
                /\ initialized
                /\ \A h \in log[i].targets : Received(h)
                /\ \A h \in log[j].targets : ~Received(h)

\* C11: a failed push does not abort initialize(): it returns with
\* initialized = true, every group was pushed to exactly once, and a host
\* holds the new configuration exactly when its own transfer succeeded;
\* the hosts whose transfer failed keep their prior configuration, in
\* either processing order.
C11_FailedPushIsPerHost ==
    (op = "initialize" /\ \E j \in Pushes : log[j].failed # {}) =>
        /\ raised = "none"
        /\ initialized
        /\ \A g \in DOMAIN host_clusters :
              Cardinality({i \in Pushes :
                  log[i].targets = Range(host_clusters[g])}) = 1
        /\ \A i \in Pushes : \A h \in log[i].targets :
              Received(h) <=> h \notin log[i].failed

\* The group pushed to first failed on one of its two hosts, the group
\* pushed to afterwards succeeded.
C11_Witness ==
    /\ op = "initialize" /\ initialized
    /\ \E i, j \in Pushes :
          /\ i < j
          /\ log[i].failed # {} /\ log[i].failed # log[i].targets
          /\ log[j].failed = {}

\* C12: for every host list of length n >= 1, master is the first host and
\* seeds are the first min(n, 3) hosts in list order (a prefix of the host
\* list that holds the master; the master alone when n = 1), and no
\* lifecycle operation changes hosts, seeds or master.
C12_MasterAndSeedsArePrefix ==
    /\ [](/\ Len(hosts) >= 1
          /\ master = hosts[1]
          /\ tech = "cassandra" =>
                /\ Len(seeds) = Min(Len(hosts), 3)
                /\ \A i \in 1..Len(seeds) : seeds[i] = hosts[i]
                /\ seeds[1] = master
                /\ Len(hosts) = 1 => seeds = <<master>>)
    /\ [][hosts' = hosts /\ seeds' = seeds /\ master' = master]_vars

\* A cluster of more than three hosts after a full round of operations.
C12_Witness ==
    /\ tech = "cassandra" /\ Len(hosts) > 3 /\ Len(seeds) = 3
    /\ op = "clean" /\ initialized

\* C13 as stated: clean() performs the log removal and then the data
\* removal, both exactly once and in that order, for every technology.
C13_CleanRemovesLogsThenData ==
    op = "clean" =>
        \E i, j \in 1..Len(log) :
            /\ i < j
            /\ log[i].cmd = "clean_rm_logs"
            /\ log[j].cmd = "clean_rm_data"
            /\ \A k \in 1..Len(log) :
                  log[k].cmd \in {"clean_rm_logs", "clean_rm_data"} =>
                      k \in {i, j}

\* The calls the last MultiCluster operation made on member k.
CallsOn(k) == {i \in 1..Len(calls) : calls[i].member = k}

\* C14 as stated: for each of bootstrap(archive), initialize(), start(),
\* stop() and clean() on a MultiCluster, when no member call raises from
\* within the member's method, the same operation is invoked exactly once
\* on every member with the same arguments; in particular bootstrap(archive)
\* passes the archive to each member's bootstrap.
C14_EveryMemberInvokedOnce ==
    (/\ mop # "none"
     /\ \A i \in 1..Len(calls) : calls[i].raised \in {"none", "TypeError"}) =>
        \A k \in 1..Len(clusters) :
            /\ Cardinality(CallsOn(k)) = 1
            /\ \A i \in CallsOn(k) :
                  /\ calls[i].op = mop
                  /\ calls[i].args = margs
                  /\ calls[i].raised = "none"

\* C15 as stated: whenever a lifecycle operation ends by raising,
\* initialized and running have the values they had when the operation
\* was called; in particular an initialize() that raises on a previously
\* initialized cluster leaves initialized = true.
C15_RaiseKeepsFlags == raised # "none" => FlagsUnchanged

\* C15: an operation that raises the not-initialized error leaves
\* initialized and running as they were when it was called; an
\* initialize() that raises has already gone through pre-initialize and
\* ends with initialized = false and running = false, whatever they were.
C15_RaiseKeepsFlagsButInitialize ==
    raised # "none" =>
        IF op = "initialize"
        THEN ~initialized /\ ~running
        ELSE raised \in NotInitializedErrors /\ FlagsUnchanged

\* An initialize() that raised on a cluster that was initialized and
\* running.
C15_Witness ==
    /\ op = "initialize" /\ raised # "none"
    /\ pre.initialized /\ pre.running

\* The last call was a start() on an initialized cluster that was not
\* running.
StartFromStopped == op = "start" /\ pre.initialized /\ ~pre.running

\* C16 as stated: a start() on an initialized, not-running cluster does not
\* return normally with the transition to running not applied: it either
\* returns with running = true or raises.
C16_StartAppliedOrRaised ==
    StartFromStopped => (raised # "none" \/ running)

\* C16: a start() on an initialized, not-running cluster whose remote start
\* command fails on some host returns normally, with the transition not
\* applied (running = false) and no error raised.
C16_FailedStartReturnsNormally ==
    (StartFromStopped /\ \E i \in 1..Len(log) :
         log[i].cmd = "start_server" /\ log[i].failed # {}) =>
        /\ raised = "none"
        /\ ~running /\ ~running_tech

\* A Cassandra start() whose command failed on every host.
C16_Witness ==
    /\ StartFromStopped /\ tech = "cassandra"
    /\ Len(log) = 1 /\ log[1].failed = Range(hosts)

\* Positions of the remote removals of logs or data in the last call, and
\* of the remote actions that fetch or push configuration files.
Removals == {i \in 1..Len(log) : log[i].cmd \in {"clean_rm_logs", "clean_rm_data"}}

ConfTransfers == {i \in 1..Len(log) : log[i].cmd \in {"get_conf", "put_conf"}}

\* C17: initialize() on an already initialized cluster first stops the
\* cluster if it is running and then cleans the prior state, both before
\* any configuration is fetched or pushed; at the end running = false, and
\* initialized = true when initialize() returns.
C17_ReinitializeStopsThenCleans ==
    (op = "initialize" /\ pre.initialized) =>
        /\ \E c \in Removals : log[c].cmd = "clean_rm_logs"
        /\ \A c \in Removals :
              /\ ~log[c].run
              /\ \A i \in ConfTransfers : c < i
              /\ \A i \in 1..Len(log) : log[i].cmd = "stop_server" => i < c
        /\ (pre.running /\ tech = "mongodb") => log[1].cmd = "stop_server"
        /\ ~running
        /\ raised = "none" => (initialized /\ Pushes # {})

\* An initialize() that returned on a cluster that was initialized and
\* running.
C17_Witness ==
    /\ op = "initialize" /\ pre.initialized /\ pre.running
    /\ raised = "none" /\ initialized /\ ~running
    /\ Pushes # {}

\* C18: within initialize(), initialized is false from the end of
\* pre-initialize until the last group has been configured and pushed to
\* (also when the cluster was initialized before): every fetch and every
\* push of configuration files is issued with initialized = false, and
\* when initialize() returns every group has been pushed to and
\* initialized is true.
C18_InitializedOnlyAfterLastPush ==
    op = "initialize" =>
        /\ \A i \in ConfTransfers : ~log[i].init
        /\ raised = "none" =>
              /\ initialized
              /\ \A g \in DOMAIN host_clusters : \E i \in Pushes :
                    log[i].targets = Range(host_clusters[g])

\* An initialize() over two groups that returned on a cluster that was
\* initialized before.
C18_Witness ==
    /\ op = "initialize" /\ pre.initialized /\ raised = "none"
    /\ Cardinality(Pushes) = 2 /\ initialized

\* C19: no remote removal of log files or data directories (issued by
\* clean(), clean_logs(), clean_data(), or by the clean() inside
\* initialize()) is issued while running = true: when the cluster is
\* running at the call, stop() is performed before the removal, and the
\* stop command of MongoDB precedes it.
C19_NoRemovalWhileRunning ==
    \A c \in Removals :
        /\ ~log[c].run
        /\ (pre.running /\ tech = "mongodb") =>
              \E i \in 1..Len(log) : i < c /\ log[i].cmd = "stop_server"

\* A clean_logs() called on a running cluster.
C19_Witness ==
    /\ op = "clean_logs" /\ pre.running
    /\ Removals # {}

\* C20 as stated: the directory initialize() pushes to each group is the
\* scratch directory materialized by the same initialize() call (the one
\* its fetch of the base configuration filled); no push takes its files
\* from another directory.
C20_PushFromScratch ==
    op = "initialize" =>
        \A i \in Pushes :
            /\ log[i].src = Scratch
            /\ \E j \in 1..Len(log) :
                  j < i /\ log[j].cmd = "get_conf" /\ log[j].dst = log[i].src

\* The seed value of a cassandra.yaml, and its fields other than that value.
SeedsOf(file) == yaml_load(file).seed_provider[1].parameters[1].seeds

OtherFields(file) == set_seeds(yaml_load(file), <<>>)

\* C21 as stated: for every document and every seed list, after the edit
\* seed_provider[0].parameters[0].seeds is exactly the seed addresses
\* joined by commas in host order, with no other character added, and
\* every other field of the document has the value it had before.
C21_SeedsInjectedExactly ==
    /\ []((op = "initialize" /\ raised = "none") =>
            SeedsOf(conf_file) =
                join(<<",">>, [i \in 1..Len(seeds) |-> address(seeds[i])]))
    /\ [][OtherFields(conf_file') = OtherFields(conf_file)]_vars

\* C22 as stated: in a MultiCluster, when initialize, start, stop or clean
\* raises on one member, the same operation is still invoked on every
\* other member, and the MultiCluster reports only the aggregated outcome:
\* every member is called exactly once whatever the other members do.
C22_MembersProceedIndependently ==
    mop \in {"initialize", "start", "stop", "clean"} =>
        \A k \in 1..Len(clusters) :
            /\ Cardinality(CallsOn(k)) = 1
            /\ \A i \in CallsOn(k) : calls[i].op = mop

\* C23: in every reachable state the technology-specific running flag that
\* guards start() (running_cassandra, running_mongodb) equals the generic
\* running flag that guards clean(), clean_logs(), clean_data() and
\* re-initialization.
C23_RunningFlagsAgree == running_tech = running

\* A cluster that was started and then stopped: both flags went up and
\* came down.
C23_Witness ==
    /\ op = "stop" /\ pre.running /\ raised = "none"
    /\ ~running /\ ~running_tech

\* Positions of the start commands of the last call.
Starts == {i \in 1..Len(log) : log[i].cmd = "start_server"}

\* C24: clean_logs() called on a running cluster stops it, removes the
\* logs and then issues start() again, so that on return running = true
\* exactly when that restart succeeded on all hosts; clean_data() and
\* clean() called on a running cluster never issue start() and return
\* with running = false.
C24_OnlyCleanLogsRestarts ==
    pre.running =>
        /\ op = "clean_logs" =>
              /\ raised = "none"
              /\ \E c \in Removals, r \in Starts :
                    /\ c < r /\ r = Len(log)
                    /\ ~log[c].run /\ ~log[r].run
                    /\ Removals = {c} /\ Starts = {r}
                    /\ log[r].targets = Range(hosts)
                    /\ running <=> (log[r].failed = {})
        /\ op \in {"clean_data", "clean"} =>
              /\ raised = "none"
              /\ Removals # {}
              /\ Starts = {}
              /\ ~running

\* A clean_logs() on a running cluster whose restart failed on one host
\* and succeeded on another.
C24_Witness ==
    /\ op = "clean_logs" /\ pre.running /\ ~running
    /\ \E r \in Starts :
          log[r].failed # {} /\ log[r].failed # Range(hosts)

\* The groups of host_clusters that hold host h.
GroupsOf(h) == {g \in DOMAIN host_clusters : h \in Range(host_clusters[g])}

\* C25: the host-group map built at construction is a partition of the
\* host list (every host is in exactly one group, no group is empty, the
\* union of the groups is the host set), and an initialize() that returns
\* has attempted the configuration push for every host exactly once.
C25_GroupsPartitionHosts ==
    /\ \A h \in Range(hosts) : Cardinality(GroupsOf(h)) = 1
    /\ \A g \in DOMAIN host_clusters : host_clusters[g] # <<>>
    /\ UNION {Range(host_clusters[g]) : g \in DOMAIN host_clusters} =
           Range(hosts)
    /\ (op = "initialize" /\ raised = "none") =>
           \A h \in Range(hosts) :
               Cardinality({i \in Pushes : h \in log[i].targets}) = 1

\* An initialize() that returned on three hosts spread over two groups.
C25_Witness ==
    /\ op = "initialize" /\ raised = "none"
    /\ Len(hosts) = 3 /\ Cardinality(DOMAIN host_clusters) = 2
    /\ Cardinality(Pushes) = 2

====
